---- MODULE Spec2Model ----
(***************************************************************************)
(* WebAmpers backend: the Flask request layer (backend/app.py) and the    *)
(* AudioProcessor it drives (backend/audio_processor.py).                 *)
(*                                                                         *)
(* Text is modelled as sequences of tokens: a file name is the sequence   *)
(* of its dot-separated pieces with the "." tokens kept, a message is the *)
(* sequence of its words, a numeric field is the sequence of its          *)
(* characters.  str.lower(), rsplit('.', 1), int() and the `in` substring *)
(* test are computed on these sequences.                                  *)
(*                                                                         *)
(* Spec and SpecRemoveOk run one request through the Flask routes;        *)
(* SpecConcurrent runs two requests together with the clock and one       *)
(* cleanup_old_files sweep; SpecProcessor calls one AudioProcessor        *)
(* operation directly; SpecSweep calls cleanup_old_files on a folder that *)
(* already holds files.  SpecProcessorFolder calls one operation on a     *)
(* folder that already holds files, SpecAllowedFile calls allowed_file on *)
(* its own, and SpecRace runs two requests beside a sweep whose file      *)
(* system calls interleave with them.                                     *)
(***************************************************************************)
EXTENDS Integers, Sequences, FiniteSets, TLC

(* ------------------------------ bounds -------------------------------- *)

\* Largest number of parts a /merge request carries under files[].
MaxFiles == 3

\* Largest number of files in the folder an AudioProcessor is constructed on.
MaxFolderFiles == 2
MaxNameLen == 3

(* --------------------------- program constants ------------------------ *)

\* The boundary accepting every format the processor supports.
ALLOWED_EXTENSIONS_WithM4a == {"wav", "mp3", "ogg", "flac", "m4a"}

\* app.py: ALLOWED_EXTENSIONS
ALLOWED_EXTENSIONS == {"wav", "mp3", "ogg", "flac"}

\* audio_processor.py: AudioProcessor.supported_formats
supported_formats == {"wav", "mp3", "ogg", "flac", "m4a"}

\* app.py: merge_audio, `if len(files) < 2`
MinMergeFiles == 2

\* audio_processor.py: number of arguments export_with_settings accepts
\* after self (input_path, target_format, settings).
ExportWithSettingsArity == 3

\* audio_processor.py: AudioProcessor.CLEANUP_THRESHOLD_SECONDS
CLEANUP_THRESHOLD_SECONDS == 3600

\* Python's None for a path local (input_path = None, output_path = None).
None == 0

(* ------------------------------ text ---------------------------------- *)

\* str.lower() on the tokens the model uses.
Lower(t) ==
    CASE t = "WAV" -> "wav"
      [] t = "MP3" -> "mp3"
      [] t = "Mp3" -> "mp3"
      [] t = "OGG" -> "ogg"
      [] t = "FLAC" -> "flac"
      [] t = "M4A" -> "m4a"
      [] t = "PDF" -> "pdf"
      [] t = "XYZ" -> "xyz"
      [] OTHER -> t

\* `kw in msg`: kw occurs as a contiguous run of msg.
Contains(msg, kw) ==
    \E i \in 1..(Len(msg) + 1) :
        /\ i + Len(kw) - 1 <= Len(msg)
        /\ SubSeq(msg, i, i + Len(kw) - 1) = kw

\* any(kw in msg for kw in keywords)
AnyKeyword(msg, keywords) == \E kw \in keywords : Contains(msg, kw)

\* The positions of "." in a file name.
DotPositions(filename) == {i \in 1..Len(filename) : filename[i] = "."}

\* A split at the first "." instead: filename.split('.', 1)[1].
RSplitExt_FirstDot(filename) ==
    LET first == CHOOSE i \in DotPositions(filename) :
                     \A j \in DotPositions(filename) : i <= j
    IN  SubSeq(filename, first + 1, Len(filename))

\* filename.rsplit('.', 1)[1]: what follows the last ".".
RSplitExt(filename) ==
    LET last == CHOOSE i \in DotPositions(filename) :
                    \A j \in DotPositions(filename) : j <= i
    IN  SubSeq(filename, last + 1, Len(filename))

\* allowed_file without the .lower() of the extension.
allowed_file_CaseSensitive(filename) ==
    /\ DotPositions(filename) # {}
    /\ LET ext == RSplitExt(filename)
       IN  /\ Len(ext) = 1
           /\ ext[1] \in ALLOWED_EXTENSIONS

\* app.py: allowed_file
allowed_file(filename) ==
    /\ DotPositions(filename) # {}
    /\ LET ext == RSplitExt(filename)
       IN  /\ Len(ext) = 1
           /\ Lower(ext[1]) \in ALLOWED_EXTENSIONS

Digits == {"0", "1", "2", "3", "4", "5", "6", "7", "8", "9"}

DigitValue(c) ==
    CASE c = "0" -> 0 [] c = "1" -> 1 [] c = "2" -> 2 [] c = "3" -> 3
      [] c = "4" -> 4 [] c = "5" -> 5 [] c = "6" -> 6 [] c = "7" -> 7
      [] c = "8" -> 8 [] c = "9" -> 9

RECURSIVE LStrip(_)
LStrip(s) == IF s # <<>> /\ Head(s) = " " THEN LStrip(Tail(s)) ELSE s

RECURSIVE RStrip(_)
RStrip(s) ==
    IF s # <<>> /\ s[Len(s)] = " " THEN RStrip(SubSeq(s, 1, Len(s) - 1)) ELSE s

\* The literal without surrounding blanks and without its sign.
IntBody(s) ==
    LET t == RStrip(LStrip(s))
    IN  IF t # <<>> /\ Head(t) \in {"+", "-"} THEN Tail(t) ELSE t

\* int(s) does not raise ValueError: optional blanks, optional sign, digits,
\* single underscores allowed between digits.
IntParses(s) ==
    LET b == IntBody(s)
    IN  /\ b # <<>>
        /\ \A i \in 1..Len(b) : b[i] \in Digits \cup {"_"}
        /\ b[1] \in Digits
        /\ b[Len(b)] \in Digits
        /\ \A i \in 1..(Len(b) - 1) : ~(b[i] = "_" /\ b[i + 1] = "_")

RECURSIVE DigitsValue(_, _)
DigitsValue(b, acc) ==
    IF b = <<>> THEN acc
    ELSE IF Head(b) = "_" THEN DigitsValue(Tail(b), acc)
    ELSE DigitsValue(Tail(b), 10 * acc + DigitValue(Head(b)))

\* int(s) for a string that parses.
IntValue(s) ==
    LET t == RStrip(LStrip(s))
        v == DigitsValue(IntBody(s), 0)
    IN  IF t # <<>> /\ Head(t) = "-" THEN 0 - v ELSE v

(* --------------------------- form fields ------------------------------ *)

\* request.form.get(name): None when the field is absent.
NoField == [present |-> FALSE, text |-> ""]
Field(text) == [present |-> TRUE, text |-> text]
NoSeqField == [present |-> FALSE, text |-> <<>>]
SeqField(chars) == [present |-> TRUE, text |-> chars]

\* Python truthiness of a form value: neither None nor empty.
Truthy(f) == f.present /\ f.text # ""
TruthySeq(f) == f.present /\ f.text # <<>>

\* A record with the fields of upd replaced in rec.
Upd(rec, upd) ==
    [k \in DOMAIN rec |-> IF k \in DOMAIN upd THEN upd[k] ELSE rec[k]]

(* ------------------------- the audio library -------------------------- *)

\* What the external library does for one processor operation:
\* AudioSegment.from_file raises an OSError or another exception (a decode
\* error), or export raises an OSError or another exception (an encode
\* error), and a failing export has or has not already created the output
\* file it was writing.
LoadOutcomes == {"ok", "load_oserror", "load_other"}
ExportFailures ==
    {"export_oserror", "export_oserror_partial",
     "export_other", "export_other_partial"}

\* str(exc) of the exceptions the library raises.
LibMessages == {<<"library", "error">>, <<"Invalid", "file", "header">>}

\* The behaviours of the library: what happens and, for a failure, the
\* message of the exception.
Lib(kinds) ==
    {[kind |-> k, msg |-> IF k = "ok" THEN <<>> ELSE m] :
        k \in kinds, m \in LibMessages}
LibOutcomes == Lib(LoadOutcomes \cup ExportFailures)

\* str(exc) of an exception the library raised.
LibErrorMessage(lib) == lib.msg

(* ------------------------- AudioProcessor ----------------------------- *)

\* An AudioSegment, as the operations that built it: the files it was
\* loaded from, each with the way it was joined to what precedes it
\* ("first", "+" or "append" with a crossfade), the slice taken of it and
\* the gain added to it, and then the effects applied to it, in order.
NoAudio == [pieces |-> <<>>, slice |-> <<>>, gain |-> 0, effects |-> <<>>]
Piece(path, join, ms) == [path |-> path, join |-> join, ms |-> ms]

\* AudioSegment.from_file(path)
from_file(path) ==
    [pieces |-> <<Piece(path, "first", 0)>>, slice |-> <<>>, gain |-> 0,
     effects |-> <<>>]

\* normalize(audio) and audio.set_frame_rate(sample_rate)
normalize(audio) ==
    [audio EXCEPT !.effects = Append(@, [op |-> "normalize", arg |-> 0])]
set_frame_rate(audio, sample_rate) ==
    [audio EXCEPT !.effects = Append(@, [op |-> "set_frame_rate", arg |-> sample_rate])]

\* The keyword arguments of AudioSegment.export: format, and bitrate and
\* parameters where the operation passes them.
NoExport == [format |-> "", bitrate |-> NoField, parameters |-> <<>>]
ExportParams(format, bitrate, parameters) ==
    [format |-> format, bitrate |-> bitrate, parameters |-> parameters]

\* What a processor operation hands back: the path it returned, or the
\* exception it raised; `created` are the output files it left on disk,
\* `used` the number of uuid4 draws it made, `name` the file name of the
\* returned path, `audio` the segment exported to it, `export` the keyword
\* arguments of that export, `loads` the from_file calls made, in order,
\* and `info` the dictionary get_audio_info returns, as its set of
\* <<key, expression the value is read from>> pairs.
Return(path, name, audio, loads, export) ==
    [raised |-> FALSE, kind |-> "", msg |-> <<>>, path |-> path,
     name |-> name, audio |-> audio, loads |-> loads, export |-> export,
     created |-> {path}, used |-> 1, info |-> {}]
Raise(kind, msg, created, used) ==
    [raised |-> TRUE, kind |-> kind, msg |-> msg, path |-> None,
     name |-> <<>>, audio |-> NoAudio, loads |-> <<>>, export |-> NoExport,
     created |-> created, used |-> used, info |-> {}]

\* A validation that lets every non-empty format through.
validate_format_NonEmpty(format_str) == format_str # ""

\* _validate_format passes: format_str.lower() in supported_formats.
validate_format(format_str) == Lower(format_str) \in supported_formats

UnsupportedFormatMessage(format_str) ==
    <<"Unsupported", "format:", format_str, "Supported", "formats:">>

\* _generate_output_path names the file <uuid>_<suffix>.<extension>.
generate_output_path(id, suffix, extension) == <<id, "_", suffix, ".", extension>>

\* The except clause letting every exception through unwrapped.
wrap_oserror_Never(prefix, lib, created, used) ==
    Raise("LibraryError", LibErrorMessage(lib), created, used)

\* except (IOError, OSError) as exc: raise AudioProcessingError(prefix + str(exc))
wrap_oserror(prefix, lib, created, used) ==
    Raise("AudioProcessingError", prefix \o LibErrorMessage(lib), created, used)

\* The body of an operation after validation: load, _generate_output_path,
\* export, return; (IOError, OSError) is rewrapped as AudioProcessingError
\* with the operation's prefix and any other exception propagates.
LoadGenerateExport(prefix, suffix, extension, audio, loads, export, lib, id) ==
    CASE lib.kind = "load_oserror" -> wrap_oserror(prefix, lib, {}, 0)
      [] lib.kind = "load_other" ->
            Raise("LibraryError", LibErrorMessage(lib), {}, 0)
      [] lib.kind = "export_oserror" -> wrap_oserror(prefix, lib, {}, 1)
      [] lib.kind = "export_oserror_partial" -> wrap_oserror(prefix, lib, {id}, 1)
      [] lib.kind = "export_other" ->
            Raise("LibraryError", LibErrorMessage(lib), {}, 1)
      [] lib.kind = "export_other_partial" ->
            Raise("LibraryError", LibErrorMessage(lib), {id}, 1)
      [] OTHER -> Return(id, generate_output_path(id, suffix, extension),
                         audio, loads, export)

\* A table of default bitrates that knows mp3 only.
default_bitrates_Mp3Only == [mp3 |-> "192k"]

\* AudioProcessor.default_bitrates
default_bitrates == [mp3 |-> "192k", ogg |-> "128k", m4a |-> "128k"]

\* `export_params['parameters'] = ['-q:a', '2']`
Mp3QualityParameters == <<"-q:a", "2">>

\* convert_format assembling export_params from target_format as it was
\* passed in.
convert_export_params(target_format) ==
    ExportParams(target_format,
                 IF target_format \in DOMAIN default_bitrates
                 THEN Field(default_bitrates[target_format]) ELSE NoField,
                 IF target_format = "mp3" THEN Mp3QualityParameters ELSE <<>>)

\* AudioProcessor.convert_format
convert_format(input_path, target_format, lib, id) ==
    IF ~validate_format(target_format)
    THEN Raise("ValueError", UnsupportedFormatMessage(target_format), {}, 0)
    ELSE LoadGenerateExport(<<"Conversion", "failed:">>, "converted",
                            target_format, from_file(input_path), <<input_path>>,
                            convert_export_params(target_format), lib, id)

\* merged.append(audio, crossfade=crossfade_ms) and merged + audio
append(merged, audio, crossfade_ms) ==
    [merged EXCEPT !.pieces = @ \o <<Piece(audio.pieces[1].path, "append", crossfade_ms)>>]
add(merged, audio) ==
    [merged EXCEPT !.pieces = @ \o <<Piece(audio.pieces[1].path, "+", 0)>>]

\* A loop that crossfades when crossfade_ms is zero too.
use_crossfade_NonNegative(crossfade_ms) == crossfade_ms >= 0

\* merge_files: `if crossfade_ms > 0`
use_crossfade(crossfade_ms) == crossfade_ms > 0

\* merge_files, the loop `for path in file_paths[1:]`: loads path and joins
\* it to merged.
RECURSIVE merge_loop(_, _, _, _)
merge_loop(merged, loads, paths, crossfade_ms) ==
    IF paths = <<>> THEN [audio |-> merged, loads |-> loads]
    ELSE LET path == Head(paths)
             audio == from_file(path)
         IN  merge_loop(IF use_crossfade(crossfade_ms)
                        THEN append(merged, audio, crossfade_ms)
                        ELSE add(merged, audio),
                        Append(loads, path), Tail(paths), crossfade_ms)

\* merge_files assembling export_params from output_format as it was
\* passed in.
merge_export_params(output_format) ==
    ExportParams(output_format,
                 IF output_format \in DOMAIN default_bitrates
                 THEN Field(default_bitrates[output_format]) ELSE NoField,
                 IF output_format = "mp3" THEN Mp3QualityParameters ELSE <<>>)

\* AudioProcessor.merge_files with its crossfade_ms argument
merge_files_crossfade(file_paths, output_format, crossfade_ms, lib, id) ==
    IF Len(file_paths) < 2
    THEN Raise("ValueError",
               <<"Need", "at", "least", "2", "files", "to", "merge">>, {}, 0)
    ELSE IF ~validate_format(output_format)
    THEN Raise("ValueError", UnsupportedFormatMessage(output_format), {}, 0)
    ELSE LET m == merge_loop(from_file(file_paths[1]), <<file_paths[1]>>,
                             Tail(file_paths), crossfade_ms)
         IN  LoadGenerateExport(<<"Merge", "failed:">>, "merged", output_format,
                                m.audio, m.loads,
                                merge_export_params(output_format), lib, id)

\* AudioProcessor.merge_files called without crossfade_ms (default 0)
merge_files(file_paths, output_format, lib, id) ==
    merge_files_crossfade(file_paths, output_format, 0, lib, id)

\* A settings dictionary: each of its optional keys is present with a
\* value, or absent.
NoSetting == [present |-> FALSE, value |-> 0]
Setting(value) == [present |-> TRUE, value |-> value]
NoFlag == [present |-> FALSE, value |-> FALSE]
Flag(value) == [present |-> TRUE, value |-> value]

\* settings.get('normalize_audio', False), settings.get('sample_rate')
\* and settings.get('bitrate')
get_normalize_audio(settings) ==
    IF settings.normalize_audio.present THEN settings.normalize_audio.value
    ELSE FALSE
get_sample_rate(settings) == settings.sample_rate
get_bitrate(settings) == settings.bitrate

\* An export that resamples only to a non-zero sample rate.
resamples_IfTruthy(sample_rate) == sample_rate.present /\ sample_rate.value # 0

\* export_with_settings: `if sample_rate is not None`
resamples(sample_rate) == sample_rate.present

\* export_with_settings: `if normalize_audio: audio = normalize(audio)`,
\* then `if sample_rate is not None: audio = audio.set_frame_rate(...)`.
apply_settings(audio, settings) ==
    LET normalized == IF get_normalize_audio(settings) THEN normalize(audio)
                      ELSE audio
    IN  IF resamples(get_sample_rate(settings))
        THEN set_frame_rate(normalized, get_sample_rate(settings).value)
        ELSE normalized

\* export_with_settings assembling export_params: `if bitrate:` the given
\* bitrate, `elif target_format in self.default_bitrates` the default.
settings_export_params(target_format, bitrate) ==
    ExportParams(target_format,
                 IF Truthy(bitrate) THEN Field(bitrate.text)
                 ELSE IF target_format \in DOMAIN default_bitrates
                 THEN Field(default_bitrates[target_format]) ELSE NoField,
                 IF target_format = "mp3" THEN Mp3QualityParameters ELSE <<>>)

\* AudioProcessor.export_with_settings
export_with_settings(input_path, target_format, settings, lib, id) ==
    IF ~validate_format(target_format)
    THEN Raise("ValueError", UnsupportedFormatMessage(target_format), {}, 0)
    ELSE LoadGenerateExport(<<"Export", "with", "settings", "failed:">>, "export",
                            target_format,
                            apply_settings(from_file(input_path), settings),
                            <<input_path>>,
                            settings_export_params(target_format,
                                                   get_bitrate(settings)),
                            lib, id)

\* A range check that turns down a slice reaching the end of the audio.
invalid_range_EndInclusive(start_ms, end_ms, duration_ms) ==
    start_ms < 0 \/ end_ms >= duration_ms \/ start_ms >= end_ms

\* trim_audio: `if start_ms < 0 or end_ms > duration_ms or start_ms >= end_ms`
invalid_range(start_ms, end_ms, duration_ms) ==
    start_ms < 0 \/ end_ms > duration_ms \/ start_ms >= end_ms

\* A trim that generates its output path before it checks the range.
trim_audio_GenerateFirst(input_path, start_ms, end_ms, output_format, duration_ms, lib, id) ==
    LET audio == from_file(input_path)
        trimmed == [audio EXCEPT !.slice = <<start_ms, end_ms>>]
        export == ExportParams(output_format, NoField, <<>>)
    IN  IF ~validate_format(output_format)
        THEN Raise("ValueError", UnsupportedFormatMessage(output_format), {}, 0)
        ELSE IF lib.kind \notin {"load_oserror", "load_other"}
                /\ invalid_range(start_ms, end_ms, duration_ms)
        THEN Raise("ValueError", <<"Invalid", "time", "range:">>, {}, 1)
        ELSE LoadGenerateExport(<<"Trim", "failed:">>, "trimmed", output_format,
                                trimmed, <<input_path>>, export, lib, id)

\* AudioProcessor.trim_audio; duration_ms is len(audio) of the loaded file.
\* The ValueError of the range check is raised inside the try block and is
\* not an OSError, so it propagates as it is.
trim_audio(input_path, start_ms, end_ms, output_format, duration_ms, lib, id) ==
    LET prefix == <<"Trim", "failed:">>
        audio == from_file(input_path)
        trimmed == [audio EXCEPT !.slice = <<start_ms, end_ms>>]
        export == ExportParams(output_format, NoField, <<>>)
    IN  IF ~validate_format(output_format)
        THEN Raise("ValueError", UnsupportedFormatMessage(output_format), {}, 0)
        ELSE IF lib.kind \in {"load_oserror", "load_other"}
        THEN LoadGenerateExport(prefix, "trimmed", output_format, audio,
                                <<input_path>>, export, lib, id)
        ELSE IF invalid_range(start_ms, end_ms, duration_ms)
        THEN Raise("ValueError", <<"Invalid", "time", "range:">>, {}, 0)
        ELSE LoadGenerateExport(prefix, "trimmed", output_format, trimmed,
                                <<input_path>>, export, lib, id)

\* AudioProcessor.adjust_volume
adjust_volume(input_path, volume_change_db, output_format, lib, id) ==
    LET audio == from_file(input_path)
        adjusted_audio == [audio EXCEPT !.gain = @ + volume_change_db]
    IN  IF ~validate_format(output_format)
        THEN Raise("ValueError", UnsupportedFormatMessage(output_format), {}, 0)
        ELSE LoadGenerateExport(<<"Volume", "adjustment", "failed:">>, "adjusted",
                                output_format, adjusted_audio, <<input_path>>,
                                ExportParams(output_format, NoField, <<>>),
                                lib, id)

\* A dictionary that lacks the loudness.
audio_info_NoLoudness ==
    {<<"duration_seconds", "len(audio) / 1000.0">>,
     <<"channels", "audio.channels">>,
     <<"sample_rate", "audio.frame_rate">>,
     <<"sample_width", "audio.sample_width">>,
     <<"frame_count", "audio.frame_count()">>}

\* The dictionary get_audio_info builds from the loaded segment.
audio_info ==
    {<<"duration_seconds", "len(audio) / 1000.0">>,
     <<"channels", "audio.channels">>,
     <<"sample_rate", "audio.frame_rate">>,
     <<"sample_width", "audio.sample_width">>,
     <<"frame_count", "audio.frame_count()">>,
     <<"dBFS", "audio.dBFS">>}

\* AudioProcessor.get_audio_info: no output path, no export.
get_audio_info(input_path, lib) ==
    CASE lib.kind = "load_oserror" ->
            wrap_oserror(<<"Failed", "to", "get", "audio", "info:">>, lib, {}, 0)
      [] lib.kind = "load_other" ->
            Raise("LibraryError", LibErrorMessage(lib), {}, 0)
      [] OTHER ->
            [raised |-> FALSE, kind |-> "", msg |-> <<>>, path |-> None,
             name |-> <<>>, audio |-> from_file(input_path),
             loads |-> <<input_path>>, export |-> NoExport,
             created |-> {}, used |-> 0, info |-> audio_info]

\* Python binding the arguments of processor.export_with_settings(*args):
\* a call whose argument count differs from the signature raises TypeError
\* before the body runs.
call_export_with_settings(args, lib, id) ==
    IF Len(args) # ExportWithSettingsArity
    THEN Raise("TypeError",
               <<"export_with_settings()", "takes", "4", "positional",
                 "arguments", "but", "5", "were", "given">>, {}, 0)
    ELSE export_with_settings(args[1], args[2], args[3], lib, id)

(* ----------------------------- the state ------------------------------ *)

VARIABLES
    req,      \* per request that has arrived: its fields, the handler's
              \* locals and its response
    uploads,  \* the files present in app.config['UPLOAD_FOLDER']
    outputs,  \* the files present in processor.upload_folder
    nextId,   \* the next value uuid.uuid4() yields (never repeated)
    now,      \* time.time(), in seconds
    mtime,    \* os.path.getmtime of each file of processor.upload_folder
    subdirs,  \* the subdirectories of processor.upload_folder
    folder_exists,  \* os.path.exists(processor.upload_folder)
    last      \* the latest call made on the processor directly, with its
              \* result

vars == <<req, uploads, outputs, nextId, now, mtime, subdirs, folder_exists, last>>

\* No call has been made on the processor directly.
NoCall == [op |-> "none"]

\* The requests of a run that handles one request.
Sequential == {"r1"}

\* The record of a request before its handler has set anything.
Blank ==
    [pc |-> "running", endpoint |-> "none",
     has_file |-> FALSE, files |-> <<>>,
     fmt |-> NoField, bitrate |-> NoField, sample_rate |-> NoSeqField,
     status |-> 0, error |-> <<>>, download_name |-> <<>>,
     file_paths |-> <<>>, output_path |-> None,
     saved |-> {}, generated |-> {},
     lib |-> [kind |-> "ok", msg |-> <<>>], first_id |-> 0,
     calls |-> <<>>, proc_raised |-> FALSE, proc_kind |-> "", proc_msg |-> <<>>,
     removals |-> <<>>, hook |-> FALSE, close_removals |-> <<>>]

Init ==
    /\ req = <<>>
    /\ uploads = {}
    /\ outputs = {}
    /\ nextId = 1
    /\ now = 0
    /\ mtime = <<>>
    /\ subdirs = {}
    /\ folder_exists = TRUE
    /\ last = NoCall

(* ----------------------------- inputs --------------------------------- *)

Filenames ==
    {<<>>, <<"track", ".", "wav">>, <<"song", ".", "MP3">>,
     <<"doc", ".", "pdf">>, <<"noextension">>}

MergeNames ==
    {<<"track", ".", "wav">>, <<"song", ".", "MP3">>, <<"doc", ".", "pdf">>}

FileLists == UNION {[1..n -> MergeNames] : n \in 0..MaxFiles}

FormatFields ==
    {NoField, Field(""), Field("mp3"), Field("WAV"), Field("m4a"), Field("xyz")}

BitrateFields == {NoField, Field("192k")}

SampleRateFields ==
    {NoSeqField, SeqField(<<>>), SeqField(<<"4", "8">>), SeqField(<<"x">>),
     SeqField(<<"4", ".", "0">>), SeqField(<<" ", "-", "8">>)}

\* The requests and library behaviours a run draws from: every one of the
\* above, or a few of them.
AllInputs ==
    [has_file |-> BOOLEAN, filenames |-> Filenames, file_lists |-> FileLists,
     formats |-> FormatFields, bitrates |-> BitrateFields,
     sample_rates |-> SampleRateFields, libs |-> LibOutcomes,
     load_libs |-> Lib(LoadOutcomes)]
FewInputs ==
    [has_file |-> {TRUE}, filenames |-> {<<"track", ".", "wav">>},
     file_lists |-> {<<<<"track", ".", "wav">>, <<"song", ".", "MP3">>>>},
     formats |-> {Field("mp3")}, bitrates |-> {Field("192k")},
     sample_rates |-> {SeqField(<<"4", "8">>)},
     libs |-> {[kind |-> "ok", msg |-> <<>>],
               [kind |-> "export_oserror_partial", msg |-> <<"library", "error">>]},
     load_libs |-> {[kind |-> "ok", msg |-> <<>>]}]

\* The paths whose os.remove the environment makes fail (permission error).
Denials(canDeny, paths) == IF canDeny THEN SUBSET paths ELSE {{}}

(* --------------------------- app.py helpers --------------------------- *)

\* os.remove(path): succeeds when the file exists and removal is not
\* refused, raises OSError otherwise.
os_remove_ok(path, disk, deny) == path \in disk /\ path \notin deny

\* _cleanup_paths with the try around the whole loop: the first OSError
\* ends the cleanup.
RECURSIVE cleanup_paths_StopOnError(_, _, _)
cleanup_paths_StopOnError(paths, disk, deny) ==
    IF paths = <<>> THEN [log |-> <<>>, disk |-> disk]
    ELSE IF Head(paths) = None THEN cleanup_paths_StopOnError(Tail(paths), disk, deny)
    ELSE LET p == Head(paths)
             ok == os_remove_ok(p, disk, deny)
             rest == cleanup_paths_StopOnError(Tail(paths), disk \ {p}, deny)
         IN  IF ok
             THEN [log |-> <<[path |-> p, ok |-> TRUE]>> \o rest.log, disk |-> rest.disk]
             ELSE [log |-> <<[path |-> p, ok |-> FALSE]>>, disk |-> disk]

\* app.py: _cleanup_paths.  Every truthy path gets one os.remove; an OSError
\* is logged and the loop goes on.  Yields the attempts in order and the
\* files left on disk.
RECURSIVE cleanup_paths(_, _, _)
cleanup_paths(paths, disk, deny) ==
    IF paths = <<>> THEN [log |-> <<>>, disk |-> disk]
    ELSE IF Head(paths) = None THEN cleanup_paths(Tail(paths), disk, deny)
    ELSE LET p == Head(paths)
             ok == os_remove_ok(p, disk, deny)
             rest == cleanup_paths(Tail(paths), IF ok THEN disk \ {p} ELSE disk, deny)
         IN  [log |-> <<[path |-> p, ok |-> ok]>> \o rest.log, disk |-> rest.disk]

\* return jsonify({'error': msg}), status
Reject(base, status, msg) ==
    Upd(base, [pc |-> "responded", status |-> status, error |-> msg])

\* An except block that answers 500 whatever the message.
ErrorStatus_Always500(msg, error_keywords) == 500

\* status_code = 400 if any(kw in str(exc) for kw in error_keywords) else 500
ErrorStatus(msg, error_keywords) ==
    IF AnyKeyword(msg, error_keywords) THEN 400 ELSE 500

MergeErrorKeywords ==
    {<<"Invalid", "file">>, <<"At", "least", "2", "files">>,
     <<"Missing", "output_format">>}

\* The keyword list without the sample-rate phrase.
ExportErrorKeywords_MissingOnly == {<<"Missing", "required">>}

ExportErrorKeywords ==
    {<<"Sample", "rate", "must", "be">>, <<"Missing", "required">>}

\* An upload path that leaves the uuid out.
upload_path_NoUuid(unique_id, filename) == 1

\* secure_filename(f"{unique_id}_{file.filename}") under UPLOAD_FOLDER: the
\* path is known by its uuid.
upload_path(unique_id, filename) == unique_id

(* --------------------------- app.py handlers -------------------------- *)
\* Each handler yields the request's record as it stands when the handler
\* returns and the number of uuid4 draws made; `id` is the first draw,
\* `disk` the files on disk when the request arrives, `deny` the removals
\* the environment refuses.

\* app.py: health_check
health_check ==
    [req |-> Upd(Blank, [endpoint |-> "health", pc |-> "responded", status |-> 200]),
     used |-> 0]

\* app.py: convert_audio
convert_audio(has_file, filename, target_format, lib, deny, id, disk) ==
    LET base == Upd(Blank, [endpoint |-> "convert", has_file |-> has_file,
                            files |-> IF has_file THEN <<filename>> ELSE <<>>,
                            fmt |-> target_format,
                            lib |-> lib, first_id |-> id])
        tf == Lower(target_format.text)
        input_path == upload_path(id, filename)
        out == convert_format(input_path, tf, lib, id + 1)
        called == Upd(base, [file_paths |-> <<input_path>>,
                             saved |-> {input_path},
                             calls |-> <<[op |-> "convert_format",
                                          args |-> <<input_path, tf>>]>>,
                             generated |-> out.created,
                             proc_raised |-> out.raised,
                               proc_kind |-> out.kind, proc_msg |-> out.msg])
    IN  IF ~has_file
        THEN [req |-> Reject(base, 400, <<"No", "file", "provided">>), used |-> 0]
        ELSE IF filename = <<>>
        THEN [req |-> Reject(base, 400, <<"No", "file", "selected">>), used |-> 0]
        ELSE IF ~Truthy(target_format)
        THEN [req |-> Reject(base, 400, <<"Missing", "target_format", "parameter">>),
              used |-> 0]
        ELSE IF ~allowed_file(filename)
        THEN [req |-> Reject(base, 400, <<"Invalid", "file", "type">>), used |-> 0]
        ELSE IF tf \notin ALLOWED_EXTENSIONS
        THEN [req |-> Reject(base, 400, <<"Invalid", "target", "format">>), used |-> 0]
        ELSE IF out.raised
        THEN LET c == cleanup_paths(<<input_path, None>>,
                                    disk \cup {input_path} \cup out.created, deny)
             IN  [req |-> Upd(Reject(called, 500, out.msg), [removals |-> c.log]),
                  used |-> 1 + out.used]
        ELSE [req |-> Upd(called, [pc |-> "responded", status |-> 200,
                                   output_path |-> out.path,
                                   download_name |-> <<"converted", ".", tf>>,
                                   hook |-> TRUE]),
              used |-> 1 + out.used]

\* app.py: merge_audio, the `for file in files` loop: stops at the first
\* file allowed_file rejects, saves every file before it under a fresh path.
RECURSIVE SaveLoop(_, _, _)
SaveLoop(files, file_paths, id) ==
    IF files = <<>>
    THEN [ok |-> TRUE, bad |-> <<>>, file_paths |-> file_paths]
    ELSE IF ~allowed_file(Head(files))
    THEN [ok |-> FALSE, bad |-> Head(files), file_paths |-> file_paths]
    ELSE SaveLoop(Tail(files),
                  Append(file_paths, upload_path(id + Len(file_paths), Head(files))),
                  id)

Range(seq) == {seq[i] : i \in 1..Len(seq)}

\* The length check letting a single file through.
TooFewFiles_OnlyEmpty(files) == Len(files) < 1

\* app.py: merge_audio, `if len(files) < 2`
TooFewFiles(files) == Len(files) < MinMergeFiles

\* app.py: merge_audio
merge_audio(files, output_format, lib, deny, id, disk) ==
    LET base == Upd(Blank, [endpoint |-> "merge", has_file |-> files # <<>>,
                            files |-> files, fmt |-> output_format,
                            lib |-> lib, first_id |-> id])
        of == Lower(output_format.text)
        loop == SaveLoop(files, <<>>, id)
        file_paths == loop.file_paths
        n == Len(file_paths)
        stored == Upd(base, [file_paths |-> file_paths, saved |-> Range(file_paths)])
        out == merge_files(file_paths, of, lib, id + n)
        called == Upd(stored, [calls |-> <<[op |-> "merge_files",
                                            args |-> <<file_paths, of>>]>>,
                               generated |-> out.created,
                               proc_raised |-> out.raised,
                               proc_kind |-> out.kind, proc_msg |-> out.msg])
    IN  IF TooFewFiles(files)
        THEN [req |-> Reject(base, 400, <<"At", "least", "2", "files", "required",
                                          "for", "merging">>),
              used |-> 0]
        ELSE IF ~Truthy(output_format)
        THEN [req |-> Reject(base, 400, <<"Missing", "output_format", "parameter">>),
              used |-> 0]
        ELSE IF ~loop.ok
        THEN LET c == cleanup_paths(file_paths, disk \cup Range(file_paths), deny)
             IN  [req |-> Upd(Reject(stored, 400,
                                     <<"Invalid", "file", "type:">> \o loop.bad),
                              [removals |-> c.log]),
                  used |-> n]
        ELSE IF out.raised
        THEN LET c == cleanup_paths(file_paths,
                                    disk \cup Range(file_paths) \cup out.created, deny)
             IN  [req |-> Upd(Reject(called, ErrorStatus(out.msg, MergeErrorKeywords),
                                     out.msg),
                              [removals |-> c.log]),
                  used |-> n + out.used]
        ELSE [req |-> Upd(called, [pc |-> "responded", status |-> 200,
                                   output_path |-> out.path,
                                   download_name |-> <<"merged", ".", of>>,
                                   hook |-> TRUE]),
              used |-> n + out.used]

\* app.py: export_audio, the arguments of processor.export_with_settings(...)
export_call_args(input_path, output_format, bitrate, sample_rate) ==
    <<input_path, output_format, bitrate, sample_rate>>

\* app.py: export_audio
export_audio(has_file, filename, format, bitrate, sample_rate_str, lib, deny, id, disk) ==
    LET base == Upd(Blank, [endpoint |-> "export", has_file |-> has_file,
                            files |-> IF has_file THEN <<filename>> ELSE <<>>,
                            fmt |-> format, bitrate |-> bitrate,
                            sample_rate |-> sample_rate_str,
                            lib |-> lib, first_id |-> id])
        of == Lower(format.text)
        input_path == upload_path(id, filename)
        stored == Upd(base, [file_paths |-> <<input_path>>, saved |-> {input_path}])
        args == export_call_args(input_path, of, bitrate.text,
                                 IntValue(sample_rate_str.text))
        out == call_export_with_settings(args, lib, id + 1)
        called == Upd(stored, [calls |-> <<[op |-> "export_with_settings",
                                            args |-> args]>>,
                               generated |-> out.created,
                               proc_raised |-> out.raised,
                               proc_kind |-> out.kind, proc_msg |-> out.msg])
    IN  IF ~has_file
        THEN [req |-> Reject(base, 400, <<"No", "file", "provided">>), used |-> 0]
        ELSE IF ~Truthy(format) \/ ~Truthy(bitrate) \/ ~TruthySeq(sample_rate_str)
        THEN [req |-> Reject(base, 400, <<"Missing", "required", "export", "settings",
                                          "(format,", "bitrate,", "or",
                                          "sample_rate)">>),
              used |-> 0]
        ELSE IF ~allowed_file(filename)
        THEN [req |-> Reject(base, 400, <<"Invalid", "file", "type">>), used |-> 0]
        ELSE IF ~IntParses(sample_rate_str.text)
        THEN LET msg == <<"Sample", "rate", "must", "be", "an", "integer">>
                 c == cleanup_paths(<<input_path, None>>, disk \cup {input_path}, deny)
             IN  [req |-> Upd(Reject(stored, ErrorStatus(msg, ExportErrorKeywords), msg),
                              [removals |-> c.log]),
                  used |-> 1]
        ELSE IF out.raised
        THEN LET c == cleanup_paths(<<input_path, None>>,
                                    disk \cup {input_path} \cup out.created, deny)
             IN  [req |-> Upd(Reject(called, ErrorStatus(out.msg, ExportErrorKeywords),
                                     out.msg),
                              [removals |-> c.log]),
                  used |-> 1 + out.used]
        ELSE [req |-> Upd(called, [pc |-> "responded", status |-> 200,
                                   output_path |-> out.path,
                                   download_name |-> <<"export", ".", of>>,
                                   hook |-> TRUE]),
              used |-> 1 + out.used]

\* get_metadata without its finally block.
finally_remove_Missing(filepath, disk, deny) == <<>>

\* app.py: get_metadata, the finally block: one os.remove of filepath,
\* OSError swallowed.
finally_remove(filepath, disk, deny) ==
    <<[path |-> filepath, ok |-> os_remove_ok(filepath, disk, deny)]>>

\* app.py: get_metadata; the finally block runs whatever the try block did.
get_metadata(has_file, filename, lib, deny, id, disk) ==
    LET base == Upd(Blank, [endpoint |-> "metadata", has_file |-> has_file,
                            files |-> IF has_file THEN <<filename>> ELSE <<>>,
                            lib |-> lib, first_id |-> id])
        filepath == upload_path(id, filename)
        out == get_audio_info(filepath, lib)
        called == Upd(base, [file_paths |-> <<filepath>>, saved |-> {filepath},
                             calls |-> <<[op |-> "get_audio_info",
                                          args |-> <<filepath>>]>>,
                             proc_raised |-> out.raised,
                             proc_kind |-> out.kind, proc_msg |-> out.msg,
                             removals |-> finally_remove(filepath,
                                                         disk \cup {filepath}, deny)])
    IN  IF ~has_file
        THEN [req |-> Reject(base, 400, <<"No", "file", "provided">>), used |-> 0]
        ELSE IF ~allowed_file(filename)
        THEN [req |-> Reject(base, 400, <<"Invalid", "file", "type">>), used |-> 0]
        ELSE IF out.raised
        THEN [req |-> Reject(called, 500, out.msg), used |-> 1]
        ELSE [req |-> Upd(called, [pc |-> "responded", status |-> 200]), used |-> 1]

(* ------------------------------ actions ------------------------------- *)

RemovedOk(log) == {log[i].path : i \in {j \in 1..Len(log) : log[j].ok}}

\* The modification times of the files of the folder: a file written now
\* carries the current time.
Stamp(files) == [p \in files |-> IF p \in DOMAIN mtime THEN mtime[p] ELSE now]

\* The handler of request r has run to its return.
Handled(r, res) ==
    /\ req' = [x \in DOMAIN req \cup {r} |-> IF x = r THEN res.req ELSE req[x]]
    /\ uploads' = (uploads \cup res.req.saved) \ RemovedOk(res.req.removals)
    /\ outputs' = (outputs \cup res.req.generated) \ RemovedOk(res.req.removals)
    /\ mtime' = Stamp(outputs')
    /\ nextId' = nextId + res.used
    /\ UNCHANGED <<now, subdirs, folder_exists, last>>

HealthCheck(r) ==
    /\ r \notin DOMAIN req
    /\ Handled(r, health_check)

ConvertAudio(r, canDeny, in) ==
    /\ r \notin DOMAIN req
    /\ \E has_file \in in.has_file, filename \in in.filenames,
          target_format \in in.formats, lib \in in.libs :
        \E deny \in Denials(canDeny, {nextId}) :
            Handled(r, convert_audio(has_file, filename, target_format, lib, deny,
                                     nextId, uploads \cup outputs))

MergeAudio(r, canDeny, in) ==
    /\ r \notin DOMAIN req
    /\ \E files \in in.file_lists, output_format \in in.formats, lib \in in.libs :
        \E deny \in Denials(canDeny, nextId..(nextId + Len(files) - 1)) :
            Handled(r, merge_audio(files, output_format, lib, deny,
                                   nextId, uploads \cup outputs))

ExportAudio(r, canDeny, in) ==
    /\ r \notin DOMAIN req
    /\ \E has_file \in in.has_file, filename \in in.filenames, format \in in.formats,
          bitrate \in in.bitrates, sample_rate_str \in in.sample_rates,
          lib \in in.libs :
        \E deny \in Denials(canDeny, {nextId}) :
            Handled(r, export_audio(has_file, filename, format, bitrate,
                                    sample_rate_str, lib, deny,
                                    nextId, uploads \cup outputs))

GetMetadata(r, canDeny, in) ==
    /\ r \notin DOMAIN req
    /\ \E has_file \in in.has_file, filename \in in.filenames, lib \in in.load_libs :
        \E deny \in Denials(canDeny, {nextId}) :
            Handled(r, get_metadata(has_file, filename, lib, deny,
                                    nextId, uploads \cup outputs))

\* A hook that forgets the output file.
HookPaths_InputsOnly(q) == q.file_paths

\* A hook that is handed the input paths a second time after the output.
HookPaths_InputsAgain(q) == q.file_paths \o <<q.output_path>> \o q.file_paths

\* The paths the call_on_close hook of a streamed response cleans up:
\* [input_path, output_path], or file_paths + [output_path] for /merge.
HookPaths(q) == q.file_paths \o <<q.output_path>>

\* The response of request r has been sent and closed; a streamed response
\* runs the cleanup hook registered with call_on_close.
ResponseClose(r, canDeny) ==
    /\ r \in DOMAIN req
    /\ req[r].pc = "responded"
    /\ \E deny \in Denials(canDeny, IF req[r].hook THEN Range(HookPaths(req[r])) ELSE {}) :
        LET c == IF req[r].hook
                 THEN cleanup_paths(HookPaths(req[r]), uploads \cup outputs, deny)
                 ELSE [log |-> <<>>, disk |-> uploads \cup outputs]
        IN  /\ req' = [req EXCEPT ![r] = Upd(@, [pc |-> "closed",
                                                 close_removals |-> c.log])]
            /\ uploads' = uploads \ RemovedOk(c.log)
            /\ outputs' = outputs \ RemovedOk(c.log)
            /\ mtime' = Stamp(outputs')
    /\ UNCHANGED <<nextId, now, subdirs, folder_exists, last>>

Next(rs, canDeny, in) ==
    \E r \in rs :
        \/ HealthCheck(r)
        \/ ConvertAudio(r, canDeny, in)
        \/ MergeAudio(r, canDeny, in)
        \/ ExportAudio(r, canDeny, in)
        \/ GetMetadata(r, canDeny, in)
        \/ ResponseClose(r, canDeny)

\* One request at a time; os.remove may fail.
NextSequential == Next(Sequential, TRUE, AllInputs)
Spec == Init /\ [][NextSequential]_vars

\* One request at a time; os.remove fails only on a file that is not there.
NextRemoveOk == Next(Sequential, FALSE, AllInputs)
SpecRemoveOk == Init /\ [][NextRemoveOk]_vars

(* -------------------- the processor called directly ------------------- *)

\* A call of a processor operation has run to its return or its raise.
Called(op, args, lib, res) ==
    /\ last' = [op |-> op, args |-> args, lib |-> lib, res |-> res,
                before |-> [files |-> outputs, mtime |-> mtime,
                            nextId |-> nextId]]
    /\ outputs' = outputs \cup res.created
    /\ mtime' = Stamp(outputs')
    /\ nextId' = nextId + res.used
    /\ UNCHANGED <<req, uploads, now, subdirs, folder_exists>>

InputPaths == {"a.wav", "b.wav"}
PathLists == UNION {[1..n -> InputPaths] : n \in 0..MaxFiles}
ProcessorFormats == {"wav", "mp3", "ogg", "flac", "m4a", "MP3", "xyz"}
TrimStarts == {-1, 0, 2, 5}
TrimEnds == {0, 2, 5, 6}
Durations == {0, 5}
Crossfades == {-5, 0, 100}
VolumeChanges == {-3, 6}
SettingsBags ==
    [normalize_audio : {NoFlag, Flag(TRUE), Flag(FALSE)},
     sample_rate : {NoSetting, Setting(0), Setting(48)},
     bitrate : {NoField, Field(""), Field("320k")}]

ConvertFormat ==
    /\ last = NoCall
    /\ \E target_format \in ProcessorFormats, lib \in LibOutcomes :
        Called("convert_format", <<"a.wav", target_format>>, lib,
               convert_format("a.wav", target_format, lib, nextId))

MergeFiles ==
    /\ last = NoCall
    /\ \E file_paths \in PathLists, output_format \in ProcessorFormats,
          crossfade_ms \in Crossfades, lib \in LibOutcomes :
        Called("merge_files", <<file_paths, output_format, crossfade_ms>>, lib,
               merge_files_crossfade(file_paths, output_format, crossfade_ms,
                                     lib, nextId))

ExportWithSettings ==
    /\ last = NoCall
    /\ \E target_format \in ProcessorFormats, settings \in SettingsBags,
          lib \in LibOutcomes :
        Called("export_with_settings", <<"a.wav", target_format, settings>>, lib,
               export_with_settings("a.wav", target_format, settings, lib, nextId))

TrimAudio ==
    /\ last = NoCall
    /\ \E start_ms \in TrimStarts, end_ms \in TrimEnds, duration_ms \in Durations,
          output_format \in ProcessorFormats, lib \in LibOutcomes :
        Called("trim_audio",
               <<"a.wav", start_ms, end_ms, output_format, duration_ms>>, lib,
               trim_audio("a.wav", start_ms, end_ms, output_format, duration_ms,
                          lib, nextId))

AdjustVolume ==
    /\ last = NoCall
    /\ \E volume_change_db \in VolumeChanges, output_format \in ProcessorFormats,
          lib \in LibOutcomes :
        Called("adjust_volume", <<"a.wav", volume_change_db, output_format>>, lib,
               adjust_volume("a.wav", volume_change_db, output_format, lib, nextId))

GetAudioInfo ==
    /\ last = NoCall
    /\ \E lib \in Lib(LoadOutcomes) :
        Called("get_audio_info", <<"a.wav">>, lib, get_audio_info("a.wav", lib))

NextProcessor ==
    \/ ConvertFormat
    \/ MergeFiles
    \/ ExportWithSettings
    \/ TrimAudio
    \/ AdjustVolume
    \/ GetAudioInfo

\* One operation of a fresh AudioProcessor called directly.
SpecProcessor == Init /\ [][NextProcessor]_vars

(* ------------------------ allowed_file alone -------------------------- *)

\* The pieces file names are made of, and the names of up to MaxNameLen
\* pieces.
NameTokens == {"track", ".", "wav", "WAV", "Mp3", "m4a", "flac", "pdf"}
Names == UNION {[1..n -> NameTokens] : n \in 0..MaxNameLen}

\* allowed_file(filename) called on its own.
AllowedFile ==
    /\ last = NoCall
    /\ \E filename \in Names :
        last' = [op |-> "allowed_file", args |-> <<filename>>,
                 res |-> allowed_file(filename)]
    /\ UNCHANGED <<req, uploads, outputs, nextId, now, mtime, subdirs,
                   folder_exists>>

SpecAllowedFile == Init /\ [][AllowedFile]_vars

(* ----------------------------- the sweep ------------------------------ *)

\* cleanup_old_files, the loop over os.listdir: a subdirectory is skipped, a
\* file older than the cutoff is removed and counted; the first entry whose
\* os.path.getmtime or os.remove raises OSError ends the loop, the one
\* except clause around it returning the count reached.
RECURSIVE sweep_loop(_, _, _, _, _)
sweep_loop(listing, cutoff, fail, cleaned_count, removed) ==
    IF listing = <<>>
    THEN [count |-> cleaned_count, removed |-> removed, error |-> FALSE]
    ELSE LET file_path == Head(listing)
         IN  IF file_path \in subdirs
             THEN sweep_loop(Tail(listing), cutoff, fail, cleaned_count, removed)
             ELSE IF file_path \in fail
             THEN [count |-> cleaned_count, removed |-> removed, error |-> TRUE]
             ELSE IF mtime[file_path] < cutoff
             THEN sweep_loop(Tail(listing), cutoff, fail, cleaned_count + 1,
                             removed \cup {file_path})
             ELSE sweep_loop(Tail(listing), cutoff, fail, cleaned_count, removed)

\* A sweep whose cutoff is the current time.
cleanup_old_files_NoThreshold(listing, fail, listdir_fails) ==
    IF ~folder_exists
    THEN [count |-> 0, removed |-> {}, error |-> FALSE]
    ELSE IF listdir_fails
    THEN [count |-> 0, removed |-> {}, error |-> TRUE]
    ELSE sweep_loop(listing, now, fail, 0, {})

\* AudioProcessor.cleanup_old_files; listing is what os.listdir returns,
\* fail the files whose getmtime or os.remove raises OSError, listdir_fails
\* whether os.listdir itself raises.
cleanup_old_files(listing, fail, listdir_fails) ==
    LET cutoff == now - CLEANUP_THRESHOLD_SECONDS
    IN  IF ~folder_exists
        THEN [count |-> 0, removed |-> {}, error |-> FALSE]
        ELSE IF listdir_fails
        THEN [count |-> 0, removed |-> {}, error |-> TRUE]
        ELSE sweep_loop(listing, cutoff, fail, 0, {})

\* os.listdir returns the entries of the folder in any order.
Listings(entries) ==
    {l \in [1..Cardinality(entries) -> entries] :
        \A i, j \in 1..Cardinality(entries) : i # j => l[i] # l[j]}

\* processor.cleanup_old_files() is called; canFail: the file system may
\* refuse a getmtime, a remove or the listing.
CleanupOldFiles(canFail) ==
    /\ last = NoCall
    /\ \E listing \in Listings(outputs \cup subdirs),
          fail \in (IF canFail THEN SUBSET outputs ELSE {{}}),
          listdir_fails \in (IF canFail THEN BOOLEAN ELSE {FALSE}) :
        LET res == cleanup_old_files(listing, fail, listdir_fails)
        IN  /\ last' = [op |-> "cleanup_old_files", listing |-> listing,
                        fail |-> fail, listdir_fails |-> listdir_fails,
                        before |-> [files |-> outputs, mtime |-> mtime,
                                    subdirs |-> subdirs, now |-> now,
                                    folder_exists |-> folder_exists, req |-> req],
                        res |-> res]
            /\ outputs' = outputs \ res.removed
            /\ mtime' = Stamp(outputs')
    /\ UNCHANGED <<req, uploads, nextId, now, subdirs, folder_exists>>

\* cleanup_old_files running beside the requests, one file system call
\* after another. It starts: the cutoff is computed and os.listdir is read.
SweepList ==
    /\ last = NoCall
    /\ folder_exists
    /\ \E listing \in Listings(outputs \cup subdirs) :
        last' = [op |-> "sweeping", listing |-> listing, rest |-> listing,
                 cutoff |-> now - CLEANUP_THRESHOLD_SECONDS,
                 count |-> 0, removed |-> {}, missing |-> {}, error |-> FALSE,
                 before |-> [files |-> outputs, mtime |-> mtime, now |-> now]]
    /\ UNCHANGED <<req, uploads, outputs, nextId, now, mtime, subdirs,
                   folder_exists>>

\* The loop examines its next entry, or returns when none is left. An
\* entry that has been removed since the listing is no directory and its
\* os.path.getmtime raises FileNotFoundError, an OSError.
SweepEntry ==
    /\ last.op = "sweeping"
    /\ IF last.rest = <<>>
       THEN /\ last' = [last EXCEPT !.op = "swept"]
            /\ UNCHANGED <<outputs, mtime>>
       ELSE LET file_path == Head(last.rest)
                gone == file_path \notin outputs \cup subdirs
                step == sweep_loop(<<file_path>>, last.cutoff,
                                   IF gone THEN {file_path} ELSE {},
                                   last.count, last.removed)
            IN  /\ last' = [last EXCEPT
                                !.op = IF step.error THEN "swept" ELSE "sweeping",
                                !.rest = Tail(@),
                                !.count = step.count,
                                !.removed = step.removed,
                                !.missing = IF gone THEN @ \cup {file_path} ELSE @,
                                !.error = step.error]
                /\ outputs' = outputs \ step.removed
                /\ mtime' = Stamp(outputs')
    /\ UNCHANGED <<req, uploads, nextId, now, subdirs, folder_exists>>

\* The moments at which something happens after the start.
Times == {3600, 3601, 7201}

\* Time passes.
Tick ==
    /\ \E t \in Times : t > now /\ now' = t
    /\ UNCHANGED <<req, uploads, outputs, nextId, mtime, subdirs, folder_exists, last>>

\* AudioProcessor.__del__ of a processor constructed on the same folder:
\* shutil.rmtree(upload_folder), before the sweep is called.
Del ==
    /\ last = NoCall
    /\ folder_exists
    /\ folder_exists' = FALSE
    /\ outputs' = {}
    /\ mtime' = <<>>
    /\ subdirs' = {}
    /\ UNCHANGED <<req, uploads, nextId, now, last>>

\* The folder an AudioProcessor is constructed on (upload_folder given):
\* it holds files written earlier and possibly a subdirectory.
FolderFiles == 1..MaxFolderFiles
FolderTimes == {0, 1}
FolderSubdirs == {-1}

InitSweep ==
    /\ req = <<>>
    /\ uploads = {}
    /\ outputs \in SUBSET FolderFiles
    /\ mtime \in [outputs -> FolderTimes]
    /\ subdirs \in SUBSET FolderSubdirs
    /\ folder_exists = TRUE
    /\ now = 1
    /\ nextId = MaxFolderFiles + 1
    /\ last = NoCall

\* A processor constructed on a folder that already holds files and a
\* subdirectory.
InitFolder ==
    /\ req = <<>>
    /\ uploads = {}
    /\ outputs = FolderFiles
    /\ mtime = [f \in FolderFiles |-> 0]
    /\ subdirs = FolderSubdirs
    /\ folder_exists = TRUE
    /\ now = 1
    /\ nextId = MaxFolderFiles + 1
    /\ last = NoCall

\* One operation called directly on that processor.
SpecProcessorFolder == InitFolder /\ [][NextProcessor]_vars

NextSweep ==
    \/ Tick
    \/ Del
    \/ CleanupOldFiles(TRUE)

\* A processor on an existing folder whose cleanup_old_files is called once.
SpecSweep == InitSweep /\ [][NextSweep]_vars

\* The requests of a run that handles two requests at the same time.
Concurrent == {"r1", "r2"}

NextConcurrent ==
    \/ Next(Concurrent, FALSE, FewInputs)
    \/ Tick
    \/ CleanupOldFiles(FALSE)

\* Two requests in flight together, time passing, and one sweep.
SpecConcurrent == Init /\ [][NextConcurrent]_vars

NextRace ==
    \/ Next(Concurrent, FALSE, FewInputs)
    \/ Tick
    \/ SweepList
    \/ SweepEntry

\* Two requests in flight together, time passing, and one sweep whose
\* file system calls interleave with the requests' steps.
SpecRace == Init /\ [][NextRace]_vars

(* ------------------------- reading the state -------------------------- *)

Disk == uploads \cup outputs

\* The handler of the request has returned its response.
Responded(q) == q.pc \in {"responded", "closed"}

\* The endpoints that stream a file back.
Streaming == {"convert", "merge", "export"}

\* Every file created for the request: its saved uploads and the output
\* files the processor wrote for it.
TempFiles(q) == q.saved \cup q.generated

\* The paths of a log of os.remove attempts, in order.
Paths(log) == [i \in 1..Len(log) |-> log[i].path]

\* Each path of the log is gone from disk unless its os.remove failed.
GoneUnlessFailed(log) ==
    \A i \in 1..Len(log) : log[i].ok => log[i].path \notin Disk

\* The spellings of the extensions the boundary accepts, and of the formats
\* the processor supports.
AllowedSpellings ==
    {"wav", "WAV", "mp3", "MP3", "Mp3", "ogg", "OGG", "flac", "FLAC"}
SupportedSpellings == AllowedSpellings \cup {"m4a", "M4A"}

\* The name has a "." and what follows its last "." is an allowed extension.
AllowedName(f) ==
    \E i \in 1..Len(f) :
        /\ f[i] = "."
        /\ \A j \in (i + 1)..Len(f) : f[j] # "."
        /\ Len(f) = i + 1
        /\ f[i + 1] \in AllowedSpellings

\* The lower-case spelling of a format.
LowerSpelling(t) ==
    CASE t \in {"WAV"} -> "wav"
      [] t \in {"MP3", "Mp3"} -> "mp3"
      [] t \in {"OGG"} -> "ogg"
      [] t \in {"FLAC"} -> "flac"
      [] t \in {"M4A"} -> "m4a"
      [] OTHER -> t

(* ------------------------------- C1 ----------------------------------- *)

\* C1: once the response of a /convert, /merge or /export request that
\* saved at least one file has completed, on the success path and on every
\* failure path, none of the files created for the request (saved uploads,
\* processor output) is still on disk.
C1_NoTempFileAfterClose ==
    \A r \in DOMAIN req :
        LET q == req[r]
        IN  (q.pc = "closed" /\ q.endpoint \in Streaming /\ q.saved # {})
                => TempFiles(q) \cap Disk = {}

(* ------------------------------- C2 ----------------------------------- *)

\* C2: a /convert, /merge or /export request whose requested format is not
\* in the supported set is answered 400 and no processor operation is
\* invoked.
C2_UnsupportedFormatIs400 ==
    \A r \in DOMAIN req :
        LET q == req[r]
        IN  (Responded(q) /\ q.endpoint \in Streaming /\ q.fmt.present
                /\ q.fmt.text \notin SupportedSpellings)
                => (q.status = 400 /\ q.calls = <<>>)

(* ------------------------------- C3 ----------------------------------- *)

\* C3: on the success path of /convert, /merge and /export no temp file of
\* the request is removed before the response is closed: while the response
\* is open no removal has been attempted and every temp file is on disk;
\* the close hook then attempts one removal per uploaded input plus one for
\* the output, in that order (2 for /convert, N + 1 for a merge of N).
C3_CleanupOnlyOnClose ==
    \A r \in DOMAIN req :
        LET q == req[r]
        IN  (Responded(q) /\ q.endpoint \in Streaming /\ q.status = 200)
                => /\ q.removals = <<>>
                   /\ q.output_path # None
                   /\ q.pc = "responded"
                        => (q.close_removals = <<>> /\ TempFiles(q) \subseteq Disk)
                   /\ q.pc = "closed"
                        => /\ Paths(q.close_removals) = q.file_paths \o <<q.output_path>>
                           /\ Len(q.close_removals) = Len(q.files) + 1
                           /\ Range(Paths(q.close_removals)) = TempFiles(q)
                           /\ Cardinality(TempFiles(q)) = Len(q.files) + 1
                           /\ GoneUnlessFailed(q.close_removals)

\* A merge of three files was streamed and closed: four removals.
C3_Witness ==
    \E r \in DOMAIN req :
        /\ req[r].pc = "closed"
        /\ req[r].endpoint = "merge"
        /\ req[r].status = 200
        /\ Len(req[r].files) = 3
        /\ Len(req[r].close_removals) = 4

(* ------------------------------- C4 ----------------------------------- *)

\* The first file of the list whose extension is not allowed (0: none).
FirstInvalid(files) ==
    IF \A i \in 1..Len(files) : AllowedName(files[i]) THEN 0
    ELSE CHOOSE i \in 1..Len(files) :
            /\ ~AllowedName(files[i])
            /\ \A j \in 1..(i - 1) : AllowedName(files[j])

\* C4 (as stated): a /merge request with at least 2 files of which some
\* file has a disallowed extension is answered 400 naming that file, the
\* merge operation is never called and every file already saved for the
\* request is removed before the response is returned.
C4_InvalidFileAborts ==
    \A r \in DOMAIN req :
        LET q == req[r]
        IN  (q.endpoint = "merge" /\ Responded(q) /\ Len(q.files) >= 2
                /\ FirstInvalid(q.files) # 0)
                => /\ q.status = 400
                   /\ \E i \in 1..Len(q.files) :
                        ~AllowedName(q.files[i]) /\ Contains(q.error, q.files[i])
                   /\ q.calls = <<>>
                   /\ q.saved \cap Disk = {}

\* C4 (amended): a /merge request with at least 2 files and a non-empty
\* output_format of which some file has a disallowed extension is answered
\* 400 naming the first such file; merge is never called; exactly the files
\* before it were saved, and before the response is returned one removal of
\* each of them has been attempted, in order, leaving it absent from disk
\* unless that os.remove failed.
C4_InvalidFileAbortsAmended ==
    \A r \in DOMAIN req :
        LET q == req[r]
            k == FirstInvalid(q.files)
        IN  (q.endpoint = "merge" /\ Responded(q) /\ Len(q.files) >= 2
                /\ q.fmt.present /\ q.fmt.text # "" /\ k # 0)
                => /\ q.status = 400
                   /\ q.error = <<"Invalid", "file", "type:">> \o q.files[k]
                   /\ q.calls = <<>>
                   /\ Len(q.file_paths) = k - 1
                   /\ Cardinality(q.saved) = k - 1
                   /\ q.saved = Range(q.file_paths)
                   /\ q.generated = {}
                   /\ Paths(q.removals) = q.file_paths
                   /\ GoneUnlessFailed(q.removals)
                   /\ q.hook = FALSE
                   /\ q.close_removals = <<>>

\* Two files were saved before the invalid third one; both were removed
\* again when the 400 was returned.
C4_Witness ==
    \E r \in DOMAIN req :
        /\ req[r].endpoint = "merge"
        /\ req[r].pc = "responded"
        /\ Len(req[r].files) = 3
        /\ FirstInvalid(req[r].files) = 3
        /\ req[r].status = 400
        /\ Len(req[r].removals) = 2
        /\ Cardinality(req[r].saved) = 2
        /\ req[r].saved \cap Disk = {}

(* ------------------------------- C5 ----------------------------------- *)

\* C5: a /merge request with fewer than 2 files under files[] is answered
\* 400 with a message containing 'At least 2 files', without saving a file
\* and without invoking the processor, whatever the other fields are.
C5_TooFewFilesIs400 ==
    \A r \in DOMAIN req :
        LET q == req[r]
        IN  (q.endpoint = "merge" /\ Responded(q) /\ Len(q.files) < 2)
                => /\ q.status = 400
                   /\ Contains(q.error, <<"At", "least", "2", "files">>)
                   /\ q.saved = {}
                   /\ q.generated = {}
                   /\ q.calls = <<>>
                   /\ q.removals = <<>>

\* One allowed file with a supported output_format was rejected.
C5_Witness ==
    \E r \in DOMAIN req :
        /\ req[r].endpoint = "merge"
        /\ Responded(req[r])
        /\ Len(req[r].files) = 1
        /\ AllowedName(req[r].files[1])
        /\ req[r].fmt = Field("mp3")
        /\ req[r].status = 400

(* ------------------------------- C6 ----------------------------------- *)

\* C6 (as stated): a /merge request with 2 or more files that all have
\* allowed extensions invokes the processor's merge operation exactly once.
C6_ValidMergeCallsOnce ==
    \A r \in DOMAIN req :
        LET q == req[r]
        IN  (q.endpoint = "merge" /\ Responded(q) /\ Len(q.files) >= 2
                /\ FirstInvalid(q.files) = 0)
                => (Len(q.calls) = 1 /\ q.calls[1].op = "merge_files")

\* C6 (amended): a /merge request with 2 or more files that all have
\* allowed extensions and with a non-empty output_format invokes merge_files
\* exactly once, with the saved paths in upload order and the lower-cased
\* output_format.
C6_ValidMergeCallsOnceAmended ==
    \A r \in DOMAIN req :
        LET q == req[r]
        IN  (q.endpoint = "merge" /\ Responded(q) /\ Len(q.files) >= 2
                /\ FirstInvalid(q.files) = 0 /\ q.fmt.present /\ q.fmt.text # "")
                => /\ Len(q.file_paths) = Len(q.files)
                   /\ Cardinality(q.saved) = Len(q.files)
                   /\ q.calls = <<[op |-> "merge_files",
                                   args |-> <<q.file_paths, LowerSpelling(q.fmt.text)>>]>>

\* Three allowed files, one of them with an upper-case extension, were
\* merged with one call.
C6_Witness ==
    \E r \in DOMAIN req :
        /\ req[r].endpoint = "merge"
        /\ Responded(req[r])
        /\ Len(req[r].files) = 3
        /\ \E i \in 1..3 : req[r].files[i] = <<"song", ".", "MP3">>
        /\ req[r].status = 200
        /\ Len(req[r].calls) = 1

(* ------------------------------- C7 ----------------------------------- *)

\* C7 (as stated): a /export request (uploading a file of an allowed
\* extension) whose sample_rate field is present, not empty, and does not
\* parse as an integer is answered 400 with a message containing
\* 'Sample rate must be an integer', export_with_settings is never called
\* and the uploaded file saved for the request is removed.
C7_BadSampleRateIs400 ==
    \A r \in DOMAIN req :
        LET q == req[r]
        IN  (q.endpoint = "export" /\ Responded(q) /\ q.has_file
                /\ AllowedName(q.files[1])
                /\ q.sample_rate.present /\ q.sample_rate.text # <<>>
                /\ ~IntParses(q.sample_rate.text))
                => /\ q.status = 400
                   /\ Contains(q.error, <<"Sample", "rate", "must", "be", "an", "integer">>)
                   /\ q.calls = <<>>
                   /\ q.saved \cap Disk = {}

\* C7 (amended): a /export request with a file of an allowed extension,
\* non-empty format and bitrate, and a non-empty sample_rate that does not
\* parse as an integer is answered 400 with 'Sample rate must be an
\* integer'; export_with_settings is never called; the upload was saved and
\* one removal of it has been attempted before the response is returned,
\* leaving it absent from disk unless that os.remove failed.
C7_BadSampleRateIs400Amended ==
    \A r \in DOMAIN req :
        LET q == req[r]
        IN  (q.endpoint = "export" /\ Responded(q) /\ q.has_file
                /\ AllowedName(q.files[1])
                /\ q.fmt.present /\ q.fmt.text # ""
                /\ q.bitrate.present /\ q.bitrate.text # ""
                /\ q.sample_rate.present /\ q.sample_rate.text # <<>>
                /\ ~IntParses(q.sample_rate.text))
                => /\ q.status = 400
                   /\ q.error = <<"Sample", "rate", "must", "be", "an", "integer">>
                   /\ q.calls = <<>>
                   /\ Cardinality(q.saved) = 1
                   /\ q.generated = {}
                   /\ Paths(q.removals) = q.file_paths
                   /\ Range(q.file_paths) = q.saved
                   /\ GoneUnlessFailed(q.removals)
                   /\ q.close_removals = <<>>

\* sample_rate '4.0' was rejected with 400 and the saved upload is gone.
C7_Witness ==
    \E r \in DOMAIN req :
        /\ req[r].endpoint = "export"
        /\ req[r].pc = "responded"
        /\ req[r].sample_rate = SeqField(<<"4", ".", "0">>)
        /\ req[r].status = 400
        /\ Cardinality(req[r].saved) = 1
        /\ Len(req[r].removals) = 1
        /\ req[r].saved \cap Disk = {}

(* ------------------------------- C8 ----------------------------------- *)

\* C8: a /export request with an allowed file, a format, a bitrate and an
\* integer sample_rate invokes export_with_settings exactly once with three
\* arguments (the saved input path, the lower-cased format, the settings
\* bag {bitrate: the submitted string, sample_rate: the parsed integer}),
\* the signature export_with_settings accepts, and then (the operation
\* having returned) streams the result as export.<format>.
C8_ExportCallsWithSettingsBag ==
    \A r \in DOMAIN req :
        LET q == req[r]
        IN  (q.endpoint = "export" /\ Responded(q) /\ q.has_file
                /\ AllowedName(q.files[1])
                /\ q.fmt.present /\ q.fmt.text \in SupportedSpellings
                /\ q.bitrate.present /\ q.bitrate.text # ""
                /\ q.sample_rate.present /\ IntParses(q.sample_rate.text))
                => /\ Len(q.calls) = 1
                   /\ q.calls[1].op = "export_with_settings"
                   /\ Len(q.calls[1].args) = 3
                   /\ q.calls[1].args[1] = q.file_paths[1]
                   /\ q.calls[1].args[2] = LowerSpelling(q.fmt.text)
                   /\ q.calls[1].args[3] =
                        [bitrate |-> q.bitrate.text,
                         sample_rate |-> IntValue(q.sample_rate.text)]
                   /\ ~q.proc_raised
                        => /\ q.status = 200
                           /\ q.download_name =
                                <<"export", ".", LowerSpelling(q.fmt.text)>>

(* ------------------------------- C9 ----------------------------------- *)

\* C9: a /metadata request whose upload was saved has had exactly one
\* removal of that file attempted when the handler returns, whether
\* get_audio_info returned (200) or raised (500); a request rejected before
\* saving (no file part, disallowed extension) has no removal attempted and
\* no processor call.
C9_MetadataCleanupOnce ==
    \A r \in DOMAIN req :
        LET q == req[r]
            accepted == q.has_file /\ AllowedName(q.files[1])
        IN  (q.endpoint = "metadata" /\ Responded(q))
                => /\ accepted
                        => /\ Cardinality(q.saved) = 1
                           /\ q.calls = <<[op |-> "get_audio_info",
                                           args |-> q.file_paths]>>
                           /\ Len(q.removals) = 1
                           /\ q.removals[1].path \in q.saved
                           /\ q.removals[1].ok => q.saved \cap Disk = {}
                           /\ q.status = IF q.proc_raised THEN 500 ELSE 200
                           /\ q.close_removals = <<>>
                   /\ ~accepted
                        => /\ q.status = 400
                           /\ q.saved = {}
                           /\ q.removals = <<>>
                           /\ q.close_removals = <<>>
                           /\ q.calls = <<>>

\* get_audio_info raised, the answer is 500 and the one removal was made.
C9_Witness ==
    \E r \in DOMAIN req :
        /\ req[r].endpoint = "metadata"
        /\ req[r].pc = "responded"
        /\ req[r].proc_raised
        /\ req[r].status = 500
        /\ Len(req[r].removals) = 1
        /\ req[r].saved \cap Disk = {}

(* ------------------------------- C10 ---------------------------------- *)

\* The first check of /convert the request fails, in the order the claim
\* gives (<<>>: it passes all five).
ConvertRejection(q) ==
    IF ~q.has_file THEN <<"No", "file", "provided">>
    ELSE IF q.files[1] = <<>> THEN <<"No", "file", "selected">>
    ELSE IF ~q.fmt.present \/ q.fmt.text = ""
    THEN <<"Missing", "target_format", "parameter">>
    ELSE IF ~AllowedName(q.files[1]) THEN <<"Invalid", "file", "type">>
    ELSE IF q.fmt.text \notin AllowedSpellings THEN <<"Invalid", "target", "format">>
    ELSE <<>>

\* C10: a /convert request that lacks the file part, has an empty filename,
\* lacks target_format, uploads a disallowed extension or names a
\* target_format outside the supported set is answered 400 with the message
\* of the first of these checks it fails, no file is saved and
\* convert_format is not invoked; a request passing all five is saved and
\* handed to convert_format.
C10_ConvertValidation ==
    \A r \in DOMAIN req :
        LET q == req[r]
        IN  (q.endpoint = "convert" /\ Responded(q))
                => /\ ConvertRejection(q) # <<>>
                        => /\ q.status = 400
                           /\ q.error = ConvertRejection(q)
                           /\ q.saved = {}
                           /\ q.generated = {}
                           /\ q.calls = <<>>
                           /\ q.removals = <<>>
                   /\ ConvertRejection(q) = <<>>
                        => /\ Cardinality(q.saved) = 1
                           /\ Len(q.calls) = 1

\* An allowed upload with target_format m4a, which the processor supports
\* and the boundary does not, was rejected.
C10_Witness ==
    \E r \in DOMAIN req :
        /\ req[r].endpoint = "convert"
        /\ Responded(req[r])
        /\ req[r].has_file
        /\ AllowedName(req[r].files[1])
        /\ req[r].fmt = Field("m4a")
        /\ req[r].status = 400
        /\ req[r].error = <<"Invalid", "target", "format">>

(* ------------------------------- C11 ---------------------------------- *)

\* The client-error phrases of each endpoint that calls the processor.
ClientErrorPhrases(endpoint) ==
    CASE endpoint = "merge" ->
            {<<"Invalid", "file">>, <<"At", "least", "2", "files">>,
             <<"Missing", "output_format">>}
      [] endpoint = "export" ->
            {<<"Sample", "rate", "must", "be">>, <<"Missing", "required">>}
      [] OTHER -> {}

\* C11: when the processor raised, the error body is the exception's
\* message and the status is 500, unless the message contains one of the
\* endpoint's client-error phrases, and then it is 400; a request the request
\* layer itself turned down (no processor call) is answered 400.
C11_ErrorStatusMapping ==
    \A r \in DOMAIN req :
        LET q == req[r]
            client == \E phrase \in ClientErrorPhrases(q.endpoint) :
                        Contains(q.proc_msg, phrase)
        IN  (Responded(q) /\ q.endpoint # "health")
                => /\ q.proc_raised
                        => /\ q.error = q.proc_msg
                           /\ q.status = IF client THEN 400 ELSE 500
                   /\ q.calls = <<>> => q.status = 400

\* A merge whose library error reads 'Invalid file header' was answered
\* 400 with 'Merge failed: Invalid file header' as the body.
C11_Witness ==
    \E r \in DOMAIN req :
        /\ req[r].endpoint = "merge"
        /\ Responded(req[r])
        /\ req[r].proc_raised
        /\ req[r].proc_kind = "AudioProcessingError"
        /\ Contains(req[r].proc_msg, <<"Invalid", "file">>)
        /\ req[r].status = 400

(* ------------------------------- C12 ---------------------------------- *)

\* C12: a /convert, /merge or /export request whose requested output format
\* is outside the supported set writes no file: nothing is saved and nothing
\* is generated for it.
C12_UnsupportedFormatWritesNothing ==
    \A r \in DOMAIN req :
        LET q == req[r]
        IN  (Responded(q) /\ q.endpoint \in Streaming /\ q.fmt.present
                /\ q.fmt.text \notin SupportedSpellings)
                => (q.saved = {} /\ q.generated = {})

(* ------------------------------- C19 ---------------------------------- *)

\* What the handler of the request does with the same request, the same
\* library behaviour and the same uuid4 draws when no os.remove fails.
WithoutRemovalFailure(q) ==
    LET filename == IF q.has_file THEN q.files[1] ELSE <<>>
    IN  CASE q.endpoint = "convert" ->
                convert_audio(q.has_file, filename, q.fmt, q.lib, {}, q.first_id, {}).req
          [] q.endpoint = "merge" ->
                merge_audio(q.files, q.fmt, q.lib, {}, q.first_id, {}).req
          [] q.endpoint = "export" ->
                export_audio(q.has_file, filename, q.fmt, q.bitrate, q.sample_rate,
                             q.lib, {}, q.first_id, {}).req
          [] q.endpoint = "metadata" ->
                get_metadata(q.has_file, filename, q.lib, {}, q.first_id, {}).req
          [] OTHER -> health_check.req

\* Some os.remove of the log failed.
SomeFailed(log) == \E i \in 1..Len(log) : ~log[i].ok

\* C19: a failed os.remove during the cleanup of a request changes neither
\* the status nor the body of its response (they are what they are when
\* every removal succeeds), and the removal of every other path of the same
\* cleanup is still attempted, in the handler as in the close hook.
C19_CleanupFailureSwallowed ==
    \A r \in DOMAIN req :
        LET q == req[r]
            ref == WithoutRemovalFailure(q)
        IN  Responded(q)
                => /\ q.status = ref.status
                   /\ q.error = ref.error
                   /\ q.download_name = ref.download_name
                   /\ Paths(q.removals) = Paths(ref.removals)
                   /\ (q.pc = "closed" /\ q.status = 200 /\ q.endpoint \in Streaming)
                        => Paths(q.close_removals) = q.file_paths \o <<q.output_path>>

\* The first of two removals of a rejected merge failed; the second was
\* made and succeeded, and the answer is still the 400 naming the file.
C19_Witness ==
    \E r \in DOMAIN req :
        /\ req[r].endpoint = "merge"
        /\ Responded(req[r])
        /\ Len(req[r].removals) = 2
        /\ ~req[r].removals[1].ok
        /\ req[r].removals[2].ok
        /\ req[r].removals[1].path \in Disk
        /\ req[r].removals[2].path \notin Disk
        /\ req[r].status = 400
        /\ req[r].error = <<"Invalid", "file", "type:", "doc", ".", "pdf">>

(* ------------------------------- C17 ---------------------------------- *)

\* The arguments of the latest direct call, by position.
Arg(i) == last.args[i]

\* The library failed to load the input of the latest direct call.
LoadFailed == last.lib.kind \in {"load_oserror", "load_other"}

\* The range of the latest trim_audio call is one the claim has rejected.
TrimRejected == Arg(2) < 0 \/ Arg(3) > Arg(5) \/ ~(Arg(2) < Arg(3))

\* C17 (as stated): trim_audio(start, end) on an audio of duration D raises
\* ValueError, producing no output file, if and only if start < 0 or
\* end > D or start >= end; in every other case it exports the slice
\* [start, end) and returns a path named <id>_trimmed.<output_format>.
C17_TrimRange ==
    last.op = "trim_audio"
        => /\ (last.res.raised /\ last.res.kind = "ValueError"
                    /\ last.res.created = {})
                <=> TrimRejected
           /\ ~TrimRejected
                => /\ ~last.res.raised
                   /\ last.res.audio.slice = <<Arg(2), Arg(3)>>
                   /\ last.res.name = <<last.res.path, "_", "trimmed", ".", Arg(4)>>

\* C17 (amended): for a supported output_format and an audio of duration D
\* that the library loads, trim_audio(start, end) raises ValueError, with no
\* output file produced, if and only if start < 0 or end > D or
\* start >= end; in every other case it exports the slice [start, end) of
\* the input and, unless the export itself fails, returns a path named
\* <id>_trimmed.<output_format>, which is then on disk.
C17_TrimRangeAmended ==
    (last.op = "trim_audio" /\ Arg(4) \in SupportedSpellings /\ ~LoadFailed)
        => /\ (last.res.raised /\ last.res.kind = "ValueError") <=> TrimRejected
           /\ TrimRejected
                => /\ last.res.created = {}
                   /\ last.res.used = 0
                   /\ outputs = {}
           /\ (~TrimRejected /\ last.lib.kind = "ok")
                => /\ ~last.res.raised
                   /\ last.res.loads = <<Arg(1)>>
                   /\ last.res.audio.pieces = <<[path |-> Arg(1), join |-> "first", ms |-> 0]>>
                   /\ last.res.audio.slice = <<Arg(2), Arg(3)>>
                   /\ last.res.name = <<last.res.path, "_", "trimmed", ".", Arg(4)>>
                   /\ outputs = {last.res.path}
           /\ (~TrimRejected /\ last.lib.kind # "ok")
                => /\ last.res.raised
                   /\ last.res.kind # "ValueError"

\* The whole of a 5 ms audio (start 0, end 5) was trimmed to <id>_trimmed.MP3.
C17_Witness ==
    /\ last.op = "trim_audio"
    /\ Arg(2) = 0
    /\ Arg(3) = 5
    /\ Arg(5) = 5
    /\ ~last.res.raised
    /\ last.res.name = <<1, "_", "trimmed", ".", "MP3">>
    /\ last.res.audio.slice = <<0, 5>>

(* ------------------------------- C18 ---------------------------------- *)

\* C18: whenever the audio library fails while a processor operation
\* (convert_format, merge_files, export_with_settings, trim_audio,
\* adjust_volume, get_audio_info) loads or exports, the operation raises
\* AudioProcessingError with a message carrying the library's, and no other
\* exception type.
C18_LibraryFailureWrapped ==
    (last.op # "none" /\ last.lib.kind # "ok" /\ last.res.raised
        /\ last.res.kind # "ValueError")
        => /\ last.res.kind = "AudioProcessingError"
           /\ Contains(last.res.msg, last.lib.msg)

(* ------------------------------- C20 ---------------------------------- *)

\* C20: merge_files over paths p1..pn (n >= 2), with a supported format and
\* a library that loads and exports, returns; whenever it returns it has
\* loaded each path once in list order, its result starts from p1 and has
\* each further segment joined in list order, by append with a crossfade of
\* crossfade_ms when crossfade_ms > 0 and by plain concatenation when
\* crossfade_ms <= 0, and that result is the one file written, named
\* <id>_merged.<output_format>.
C20_MergeFoldsLeftToRight ==
    last.op = "merge_files"
        => LET paths == Arg(1)
               ms == Arg(3)
               n == Len(paths)
               pieces == last.res.audio.pieces
           IN  /\ (n >= 2 /\ Arg(2) \in SupportedSpellings /\ last.lib.kind = "ok")
                    => ~last.res.raised
               /\ ~last.res.raised
                    => /\ n >= 2
                       /\ last.res.loads = paths
                       /\ Len(pieces) = n
                       /\ pieces[1] = [path |-> paths[1], join |-> "first", ms |-> 0]
                       /\ \A k \in 2..n :
                            /\ pieces[k].path = paths[k]
                            /\ ms > 0 => (pieces[k].join = "append" /\ pieces[k].ms = ms)
                            /\ ms <= 0 => pieces[k].join = "+"
                       /\ last.res.audio.slice = <<>>
                       /\ last.res.name = <<last.res.path, "_", "merged", ".", Arg(2)>>
                       /\ outputs = {last.res.path}

\* Three paths were merged with a crossfade of 100 ms.
C20_Witness ==
    /\ last.op = "merge_files"
    /\ Arg(1) = <<"a.wav", "b.wav", "a.wav">>
    /\ Arg(3) = 100
    /\ ~last.res.raised
    /\ Len(last.res.audio.pieces) = 3
    /\ last.res.audio.pieces[3] = [path |-> "a.wav", join |-> "append", ms |-> 100]

(* ------------------------------- C13 ---------------------------------- *)

\* The latest direct call was a sweep.
Swept == last.op = "cleanup_old_files"

\* The request is in progress: the processor has produced its output and
\* the response streaming it has not been closed and cleaned up yet.
InFlight(q) == q.pc = "responded" /\ q.hook

\* The requests that were in progress when the sweep was called.
InFlightAtSweep ==
    {r \in DOMAIN last.before.req : InFlight(last.before.req[r])}

\* The age the file had when the sweep was called.
AgeAtSweep(f) == last.before.now - last.before.mtime[f]

\* C13 (as stated): a sweep called while requests are in flight deletes no
\* output of a request that is still in progress.
C13_SweepSparesInFlight ==
    Swept
        => \A r \in InFlightAtSweep :
            last.before.req[r].output_path \notin last.res.removed

\* C13 (amended): a sweep called while requests are in flight deletes only
\* files modified more than 3600 seconds before it, so it deletes no output
\* of a request still in progress that was written at most 3600 seconds
\* earlier.
C13_SweepSparesRecentInFlight ==
    Swept
        => /\ \A f \in last.res.removed :
                f \in last.before.files /\ AgeAtSweep(f) > 3600
           /\ \A r \in InFlightAtSweep :
                LET out == last.before.req[r].output_path
                IN  /\ out \in last.before.files
                    /\ AgeAtSweep(out) <= 3600 => out \notin last.res.removed

\* A sweep removed an older file and spared the output, written exactly
\* 3600 seconds earlier, of a request still in progress.
C13_Witness ==
    /\ Swept
    /\ last.res.removed # {}
    /\ \E r \in InFlightAtSweep :
        LET out == last.before.req[r].output_path
        IN  AgeAtSweep(out) = 3600 /\ out \notin last.res.removed

(* ------------------------------- C14 ---------------------------------- *)

\* The temp paths the request created: its saved uploads and the outputs
\* the processor wrote for it.
Created(q) == q.saved \cup q.generated \cup ({q.output_path} \ {None})

\* The os.remove attempts made for the request, by its handler and by its
\* close hook.
Attempts(q) == q.removals \o q.close_removals

\* C14: two requests handled at the same time create disjoint sets of temp
\* paths; the cleanup of one attempts no path of the other, and an os.remove
\* of a cleanup fails only on a file the sweep has deleted, never because
\* of the other request.
C14_RequestsDisjoint ==
    \A r1, r2 \in DOMAIN req :
        r1 # r2
            => /\ Created(req[r1]) \cap Created(req[r2]) = {}
               /\ Range(Paths(Attempts(req[r1]))) \cap Created(req[r2]) = {}
               /\ Range(Paths(Attempts(req[r1]))) \subseteq Created(req[r1])
               /\ \A i \in 1..Len(Attempts(req[r1])) :
                    ~Attempts(req[r1])[i].ok
                        => (Swept /\ Attempts(req[r1])[i].path \in last.res.removed)

\* Two conversions of uploads with the same name were in flight together;
\* one has been closed and cleaned up, every removal succeeding, and the
\* files of the other are all still on disk.
C14_Witness ==
    \E r1, r2 \in DOMAIN req :
        /\ r1 # r2
        /\ req[r1].endpoint = "convert"
        /\ req[r2].endpoint = "convert"
        /\ req[r1].files = req[r2].files
        /\ req[r1].pc = "closed"
        /\ req[r1].status = 200
        /\ Len(req[r1].close_removals) = 2
        /\ \A i \in 1..2 : req[r1].close_removals[i].ok
        /\ Created(req[r1]) \cap Disk = {}
        /\ InFlight(req[r2])
        /\ Cardinality(Created(req[r2])) = 2
        /\ Created(req[r2]) \subseteq Disk

(* ------------------------------- C15 ---------------------------------- *)

\* The files that were in the folder when the sweep started and whose
\* modification time was strictly earlier than (now - 3600 seconds).
OldFiles ==
    {f \in last.before.files : last.before.mtime[f] < last.before.now - 3600}

\* C15: cleanup_old_files removes exactly the non-directory entries of the
\* folder whose modification time is strictly earlier than (now - 3600 s):
\* every such file (whose own getmtime and os.remove did not fail, the
\* listing having been read) is gone, every newer file and every
\* subdirectory is in place, and the count returned is the number of files
\* removed, 0 when the folder does not exist.
C15_SweepRemovesExactlyOld ==
    Swept
        => /\ ~last.listdir_fails => (OldFiles \ last.fail) \cap outputs = {}
           /\ (last.before.files \ OldFiles) \subseteq outputs
           /\ \A f \in outputs : mtime[f] = last.before.mtime[f]
           /\ subdirs = last.before.subdirs
           /\ last.res.count = Cardinality(last.before.files \ outputs)
           /\ ~last.before.folder_exists => last.res.count = 0

(* ------------------------------- C16 ---------------------------------- *)

\* C16: when reading or removing one entry fails during cleanup_old_files,
\* every other entry older than the threshold is still removed and the call
\* returns the count of the files actually removed.
C16_SweepGoesOnAfterFailure ==
    (Swept /\ last.before.folder_exists /\ ~last.listdir_fails /\ last.fail # {})
        => /\ \A f \in OldFiles : f \notin last.fail => f \notin outputs
           /\ last.res.count = Cardinality(last.res.removed)

(* ------------------------------- C21 ---------------------------------- *)

\* The bitrate and the quality parameters the specification gives for each
\* supported format.
SpecBitrate(format) ==
    CASE format = "mp3" -> Field("192k")
      [] format \in {"ogg", "m4a"} -> Field("128k")
      [] OTHER -> NoField
SpecParameters(format) == IF format = "mp3" THEN <<"-q:a", "2">> ELSE <<>>

\* The latest direct call returned from one of the given operations.
Returned(ops) == last.op \in ops /\ ~last.res.raised

\* C21: for every supported format, convert_format and merge_files export
\* with the same parameters: that format, bitrate 192k for mp3, 128k for
\* ogg and m4a and none for wav and flac, and the quality parameters
\* ['-q:a', '2'] for mp3 and for no other format.
C21_SameExportParameters ==
    /\ \A format \in supported_formats :
            convert_export_params(format) = merge_export_params(format)
    /\ (Returned({"convert_format", "merge_files"}) /\ Arg(2) \in supported_formats)
            => /\ last.res.export.format = Arg(2)
               /\ last.res.export.bitrate = SpecBitrate(Arg(2))
               /\ last.res.export.parameters = SpecParameters(Arg(2))

\* A merge to ogg was exported at 128k without quality parameters.
C21_Witness ==
    /\ Returned({"merge_files"})
    /\ Arg(2) = "ogg"
    /\ last.res.export = [format |-> "ogg", bitrate |-> Field("128k"),
                          parameters |-> <<>>]

(* ------------------------------- C22 ---------------------------------- *)

\* The steps the specification has export_with_settings apply to the
\* loaded audio under the given settings, in order.
SpecSteps(settings) ==
    (IF settings.normalize_audio.present /\ settings.normalize_audio.value
     THEN <<[op |-> "normalize", arg |-> 0]>> ELSE <<>>)
    \o (IF settings.sample_rate.present
        THEN <<[op |-> "set_frame_rate", arg |-> settings.sample_rate.value]>>
        ELSE <<>>)

\* C22: export_with_settings loads the input, normalizes it only when the
\* normalize setting is true, then resamples it only when a sample rate is
\* given, then exports it; the export bitrate is the supplied bitrate
\* whenever that is a non-empty string, otherwise the default of the format
\* (mp3 192k, ogg 128k, m4a 128k), otherwise none.
C22_SettingsOrderAndBitrate ==
    Returned({"export_with_settings"})
        => LET settings == Arg(3)
               supplied == settings.bitrate
           IN  /\ last.res.loads = <<Arg(1)>>
               /\ last.res.audio.pieces = <<[path |-> Arg(1), join |-> "first", ms |-> 0]>>
               /\ last.res.audio.effects = SpecSteps(settings)
               /\ last.res.export.format = Arg(2)
               /\ (supplied.present /\ supplied.text # "")
                    => last.res.export.bitrate = Field(supplied.text)
               /\ (~(supplied.present /\ supplied.text # "")
                        /\ Arg(2) \in supported_formats)
                    => last.res.export.bitrate = SpecBitrate(Arg(2))

\* An export to ogg with normalization, a sample rate of 48 and an empty
\* bitrate string normalized, then resampled, and exported at 128k.
C22_Witness ==
    /\ Returned({"export_with_settings"})
    /\ Arg(2) = "ogg"
    /\ Arg(3) = [normalize_audio |-> Flag(TRUE), sample_rate |-> Setting(48),
                 bitrate |-> Field("")]
    /\ Len(last.res.audio.effects) = 2
    /\ last.res.audio.effects[1].op = "normalize"
    /\ last.res.audio.effects[2].op = "set_frame_rate"
    /\ last.res.export.bitrate = Field("128k")

(* ------------------------------- C23 ---------------------------------- *)

\* The output directory is as it was before the latest direct call: the
\* same files with the same modification times, the same subdirectories,
\* and no output path was generated.
FolderUntouched ==
    /\ outputs = last.before.files
    /\ mtime = last.before.mtime
    /\ subdirs = FolderSubdirs
    /\ nextId = last.before.nextId
    /\ last.res.created = {}
    /\ last.res.path = None
    /\ last.res.export = NoExport

\* C23: get_audio_info returns the six fields duration_seconds, channels,
\* sample_rate, sample_width, frame_count and dBFS when it returns, and,
\* whether it returns or raises, generates no output path, writes no file
\* and leaves the output directory as it was.
C23_InfoLeavesFolder ==
    last.op = "get_audio_info"
        => /\ FolderUntouched
           /\ ~last.res.raised
                => /\ {kv[1] : kv \in last.res.info} =
                        {"duration_seconds", "channels", "sample_rate",
                         "sample_width", "frame_count", "dBFS"}
                   /\ Cardinality(last.res.info) = 6

\* get_audio_info returned from a folder that held files.
C23_Witness ==
    /\ last.op = "get_audio_info"
    /\ ~last.res.raised
    /\ <<"dBFS", "audio.dBFS">> \in last.res.info
    /\ outputs = FolderFiles
    /\ outputs # {}

(* ------------------------------- C24 ---------------------------------- *)

\* The operations that take an output format, and the format each was
\* given in the latest direct call.
FormatOperations ==
    {"convert_format", "merge_files", "export_with_settings", "trim_audio",
     "adjust_volume"}
FormatGiven ==
    CASE last.op = "trim_audio" -> Arg(4)
      [] last.op = "adjust_volume" -> Arg(3)
      [] OTHER -> Arg(2)

\* C24: in every processor operation that takes an output format, format
\* validation is the first check: given an unsupported format the operation
\* raises the unsupported-format ValueError, whatever its other arguments
\* are (a merge of fewer than two paths included), and has loaded no input.
C24_FormatCheckedFirst ==
    (last.op \in FormatOperations /\ FormatGiven \notin SupportedSpellings)
        => /\ last.res.raised
           /\ last.res.kind = "ValueError"
           /\ last.res.msg = UnsupportedFormatMessage(FormatGiven)
           /\ last.res.loads = <<>>

\* C24, amended: given an unsupported format, every processor operation
\* that takes an output format raises a ValueError before any input is
\* loaded, whatever its other arguments are; it is the unsupported-format
\* error, except in a merge of fewer than two paths, where merge_files has
\* checked the number of paths first and raises the too-few-files error.
C24_FormatCheckedBeforeLoad ==
    (last.op \in FormatOperations /\ FormatGiven \notin SupportedSpellings)
        => /\ last.res.raised
           /\ last.res.kind = "ValueError"
           /\ last.res.loads = <<>>
           /\ last.res.created = {}
           /\ last.res.msg =
                IF last.op = "merge_files" /\ Len(Arg(1)) < 2
                THEN <<"Need", "at", "least", "2", "files", "to", "merge">>
                ELSE UnsupportedFormatMessage(FormatGiven)

\* A merge of three paths to an unsupported format raised the format error
\* without loading any of them.
C24_Witness ==
    /\ last.op = "merge_files"
    /\ Len(Arg(1)) = 3
    /\ Arg(2) = "xyz"
    /\ last.lib.kind = "load_oserror"
    /\ last.res.raised
    /\ last.res.msg = UnsupportedFormatMessage("xyz")
    /\ last.res.loads = <<>>

(* ------------------------------- C25 ---------------------------------- *)

\* C25: allowed_file(name) is true exactly when name contains a "." and the
\* text after its last ".", lower-cased, is one of wav, mp3, ogg, flac; so
\* an upper-case extension is accepted, a name without a "." is rejected
\* and the extension m4a is rejected.
C25_AllowedFile ==
    last.op = "allowed_file"
        => LET name == Arg(1)
               n == Len(name)
           IN  /\ last.res <=> AllowedName(name)
               /\ (n >= 2 /\ name[n - 1] = "." /\ name[n] \in {"WAV", "Mp3"})
                    => last.res
               /\ (\A i \in 1..n : name[i] # ".") => ~last.res
               /\ (n >= 1 /\ name[n] = "m4a") => ~last.res

\* A name with two dots and an upper-case extension was accepted.
C25_Witness ==
    /\ last.op = "allowed_file"
    /\ Arg(1) = <<".", ".", "WAV">>
    /\ last.res

(* ------------------------------- C26 ---------------------------------- *)

\* C26: whenever a processor operation raises, no file that the operation
\* created remains in the output directory.
C26_NoOrphanAfterRaise ==
    (last.op \in FormatOperations \cup {"get_audio_info"} /\ last.res.raised)
        => /\ last.res.created \cap outputs = {}
           /\ outputs = last.before.files

(* ------------------------------- C27 ---------------------------------- *)

\* The files listed by the sweep that were older than its cutoff.
OldListed ==
    {f \in last.before.files : last.before.mtime[f] < last.cutoff}

\* C27: when a file is removed by someone else between the sweep's listing
\* and its inspection of that file, the sweep still removes every other
\* file older than the threshold that was present when it listed, and the
\* count it returns is the number of files it removed itself.
C27_SweepSurvivesRace ==
    (last.op = "swept" /\ last.missing # {})
        => /\ \A f \in OldListed \ last.missing : f \in last.removed
           /\ last.count = Cardinality(last.removed)

(* ------------------------------- C28 ---------------------------------- *)

\* The cleanup of the request's temp paths has run in its handler; it is
\* due to run, or has run, in its close hook.
CleanedInHandler(q) == q.removals # <<>>
CleanedOnClose(q) == q.hook

\* C28: in every /convert, /merge and /export request that has saved an
\* upload, the cleanup of the request's temp paths runs exactly once: in
\* the handler (its error handler or its rejection of a file) or in the
\* close hook, never in both, and never twice; so no temp path has its
\* removal attempted more than once, and once the response is closed every
\* path the request layer knows has been attempted exactly once.
C28_CleanupExactlyOnce ==
    \A r \in DOMAIN req :
        LET q == req[r]
            tried == Paths(Attempts(q))
        IN  (q.endpoint \in Streaming /\ Responded(q) /\ q.saved # {})
                => /\ CleanedInHandler(q) # CleanedOnClose(q)
                   /\ CleanedInHandler(q) => q.close_removals = <<>>
                   /\ q.pc = "responded" => q.close_removals = <<>>
                   /\ (q.pc = "closed" /\ CleanedOnClose(q))
                        => q.close_removals # <<>>
                   /\ \A i, j \in 1..Len(tried) : tried[i] = tried[j] => i = j
                   /\ q.pc = "closed"
                        => Range(tried) =
                            q.saved \cup ({q.output_path} \ {None})

\* A merge of two uploads was streamed and closed: its hook tried the two
\* uploads and the output once each, the removal of one upload failing,
\* and its handler tried none.
C28_Witness ==
    \E r \in DOMAIN req :
        /\ req[r].endpoint = "merge"
        /\ req[r].pc = "closed"
        /\ req[r].status = 200
        /\ req[r].removals = <<>>
        /\ Len(req[r].close_removals) = 3
        /\ ~req[r].close_removals[1].ok
        /\ req[r].close_removals[3].ok

(* ------------------------------- C29 ---------------------------------- *)

\* The latest direct call was given arguments that the operation's own
\* validation turns down: an unsupported format, fewer than two paths to
\* merge, or a trim range that is invalid for the audio it loaded.
OwnValidationFails ==
    /\ last.op \in FormatOperations
    /\ \/ FormatGiven \notin SupportedSpellings
       \/ last.op = "merge_files" /\ Len(Arg(1)) < 2
       \/ last.op = "trim_audio" /\ ~LoadFailed /\ TrimRejected

\* C29: a processor operation that fails its own validation raises a
\* ValueError and leaves the output directory exactly as it was: it has
\* generated no output path and has created or removed no file.
C29_ValidationLeavesFolder ==
    OwnValidationFails
        => /\ last.res.raised
           /\ last.res.kind = "ValueError"
           /\ FolderUntouched

\* A trim to a supported format whose range ends after the audio was
\* turned down in a folder that held files.
C29_Witness ==
    /\ last.op = "trim_audio"
    /\ Arg(4) = "wav"
    /\ Arg(3) = 6
    /\ Arg(5) = 5
    /\ last.lib.kind = "export_oserror_partial"
    /\ last.res.raised
    /\ last.res.kind = "ValueError"
    /\ outputs = FolderFiles
    /\ outputs # {}

(* ------------------------------- C30 ---------------------------------- *)

\* C30: the processor treats format names case-insensitively throughout:
\* for every format string that passes _validate_format, convert_format,
\* merge_files and export_with_settings (given no bitrate of its own)
\* choose the default bitrate, the mp3 quality parameters and the output
\* file extension that they choose for the lower-case spelling.
C30_FormatCaseInsensitive ==
    Returned({"convert_format", "merge_files", "export_with_settings"})
        => LET lower == LowerSpelling(Arg(2))
               supplied == last.op = "export_with_settings"
                           /\ Arg(3).bitrate.present
                           /\ Arg(3).bitrate.text # ""
           IN  /\ ~supplied => last.res.export.bitrate = SpecBitrate(lower)
               /\ last.res.export.parameters = SpecParameters(lower)
               /\ last.res.name[Len(last.res.name)] = lower

====
